---- MODULE Spec2Model ----
(***************************************************************************)
(* Model of PerishableSupplyChain (src/Archive/main_v2.py): the day-by-day *)
(* batch ledger and allocation loop of run_simulation.                     *)
(*                                                                         *)
(* Numbers.  Quantities are integers.  A proportion is kept in thousandths *)
(* until round(.., 2) turns it into hundredths; transport_rate is kept in  *)
(* hundredths, so Transport_Cost is in 1/100 of a currency unit; Waste_Pct *)
(* is in hundredths of a percent.  Python's round() is round-half-to-even. *)
(* The source rounds floating-point products; on a tie the float may fall  *)
(* just below the half (e.g. (15/22)*11 = 7.4999..).  With the quantities, *)
(* proportions and bounds drawn below every rounding the runs make has the *)
(* same value in floating point as the rational rounding used here.        *)
(***************************************************************************)
EXTENDS Integers, Sequences, FiniteSets, TLC

VARIABLES
    products,              \* self.products: sequence of [name, shelf_life, production_plan] (dict order)
    distributors,          \* self.distributors: sequence of distributor records
    transport_rate,        \* self.transport_rate, in hundredths
    sim_days_override,     \* self.sim_days_override
    all_results,           \* self.all_results: product name -> result tables
    total_transport_cost,  \* self.total_transport_cost, in hundredths
    total_waste_cost,      \* self.total_waste_cost
    pc,                    \* position inside run_simulation
    pi,                    \* index of the product being simulated
    current_day,
    batches,               \* ledger: production day -> [initial, current, expiry]
    purchases,             \* purchase records of the current product
    inventory_log,         \* snapshot rows of the current product
    waste,                 \* production day -> wasted quantity
    di,                    \* index into sorted_distributors
    sorted_batches,        \* eligible batch days of the current turn, ascending
    bi,                    \* index into sorted_batches
    total_available,
    total_purchase,
    remaining_purchase,
    turn,                  \* record of the distributor turn in progress / just ended
    rerun,                 \* "none": one run only; "allowed": a second run may follow;
                           \* "same" / "new": the second run, on this or on a new instance
    prev_results,          \* all_results returned by the previous run
    prev_products,         \* self.products of the previous run
    app,                   \* SupplyChainApp: [sim_days, msg, weekly]
    opt                    \* the optimize_production call in progress

vars == <<products, distributors, transport_rate, sim_days_override, all_results,
          total_transport_cost, total_waste_cost, pc, pi, current_day, batches,
          purchases, inventory_log, waste, di, sorted_batches, bi, total_available,
          total_purchase, remaining_purchase, turn, rerun, prev_results,
          prev_products, app, opt>>

-----------------------------------------------------------------------------
(* Bounds of the model *)

MaxDays == 7        \* longest simulation horizon
MaxPlanDay == 4     \* last day a production plan may mention
MaxShelf == 5       \* longest shelf life
MaxPolicy == 4      \* widest policy window

-----------------------------------------------------------------------------
(* Helpers *)

EmptyFn == <<>>

Restrict(f, S) == [x \in S |-> f[x]]

Min2(a, b) == IF a <= b THEN a ELSE b

RECURSIVE SetSum(_, _)
SetSum(f, S) ==
    IF S = {} THEN 0
    ELSE LET x == CHOOSE y \in S : TRUE IN f[x] + SetSum(f, S \ {x})

\* the set of the elements of a sequence
RECURSIVE SeqRange(_)
SeqRange(q) == IF q = <<>> THEN {} ELSE {Head(q)} \cup SeqRange(Tail(q))

\* sorted(keys): the elements of a finite set of integers in ascending order
RECURSIVE SortedKeys(_)
SortedKeys(S) ==
    IF S = {} THEN <<>>
    ELSE LET m == CHOOSE x \in S : \A y \in S : x <= y
         IN  <<m>> \o SortedKeys(S \ {m})

\* Python round() of the non-negative rational num/den: half goes to even
RoundHalfEven(num, den) ==
    LET q == num \div den
        r == num % den
    IN  IF 2 * r > den \/ (2 * r = den /\ q % 2 = 1) THEN q + 1 ELSE q

\* round(x, 2) of a proportion given in thousandths, result in hundredths
Round2(permille) == RoundHalfEven(permille, 10)

\* mutant of InsertByPolicy: d goes after the elements with an equal key
RECURSIVE InsertAfterEqual(_, _)
InsertAfterEqual(d, s) ==
    IF s = <<>> THEN <<d>>
    ELSE IF d.policy_days < Head(s).policy_days THEN <<d>> \o s
         ELSE <<Head(s)>> \o InsertAfterEqual(d, Tail(s))

\* sorted(self.distributors, key=policy_days): stable, so d (which precedes
\* every element of s in the list) goes before the elements with an equal key
RECURSIVE InsertByPolicy(_, _)
InsertByPolicy(d, s) ==
    IF s = <<>> THEN <<d>>
    ELSE IF d.policy_days <= Head(s).policy_days THEN <<d>> \o s
         ELSE <<Head(s)>> \o InsertByPolicy(d, Tail(s))

RECURSIVE SortedDistributors(_)
SortedDistributors(ds) ==
    IF ds = <<>> THEN <<>>
    ELSE InsertByPolicy(Head(ds), SortedDistributors(Tail(ds)))

-----------------------------------------------------------------------------
(* The steps of run_simulation, as operators *)

\* line 46: a batch is produced on `day`
Produces(plan, day) == day \in DOMAIN plan /\ plan[day] > 0

\* mutant of NewBatch: the batch outlives its shelf life by a day
NewBatchLateExpiry(qty, day, shelf_life) ==
    [initial |-> qty, current |-> qty, expiry |-> day + shelf_life]

\* lines 48-52
NewBatch(qty, day, shelf_life) ==
    [initial |-> qty, current |-> qty, expiry |-> day + shelf_life - 1]

\* mutant of AddBatch: the new batch takes the place of the ledger
AddBatchAlone(b, plan, day, shelf_life) ==
    IF Produces(plan, day)
    THEN (day :> NewBatch(plan[day], day, shelf_life))
    ELSE b

\* lines 45-52: the ledger after the batch creation of `day`
AddBatch(b, plan, day, shelf_life) ==
    IF Produces(plan, day)
    THEN (day :> NewBatch(plan[day], day, shelf_life)) @@ b
    ELSE b

\* mutant of Snapshot: the row leaves out the batches that expire on its day
SnapshotUnexpired(day, phase, b) ==
    [Day |-> day, Phase |-> phase,
     Q |-> [k \in {p_day \in DOMAIN b : b[p_day].expiry # day} |-> b[k].current]]

\* lines 55-57 and 153-155: one snapshot row
Snapshot(day, phase, b) ==
    [Day |-> day, Phase |-> phase, Q |-> [k \in DOMAIN b |-> b[k].current]]

\* mutant of ExpiredDays: a batch goes the day after its expiry day
ExpiredDaysAfter(b, day) == {p_day \in DOMAIN b : b[p_day].expiry = day - 1}
\* line 61
ExpiredDays(b, day) == {p_day \in DOMAIN b : b[p_day].expiry = day}

\* mutant of RecordWaste: the quantity produced is recorded, not the quantity left
RecordWasteInitial(w, b, expired) ==
    [p_day \in expired |-> b[p_day].initial] @@ w

\* lines 62-64: waste after the expiry step
RecordWaste(w, b, expired) ==
    [p_day \in expired |-> b[p_day].current] @@ w

\* mutant of RemoveBatches: the expired batches stay in the ledger
RemoveBatchesNone(b, gone) == b
\* line 65
RemoveBatches(b, gone) == Restrict(b, DOMAIN b \ gone)

\* mutant of WasteCostAfter: the quantity thrown away is added to the total
WasteCostAccrued(cost, b, expired) ==
    cost + SetSum([p_day \in expired |-> b[p_day].current], expired)

\* lines 60-65: the expiry step has no statement on total_waste_cost
WasteCostAfter(cost, b, expired) == cost

\* line 72
Carries(dist, prod_name) == prod_name \in dist.preferred_products

\* mutant of NotPurchasing: the weekly closure day is not tested
NotPurchasingCalendarOnly(dist, day) ==
    \/ day > Len(dist.purchase_days)
    \/ ~dist.purchase_days[day]

\* lines 81-83
NotPurchasing(dist, day) ==
    \/ day > Len(dist.purchase_days)
    \/ ~dist.purchase_days[day]
    \/ day % 7 = 0

\* mutant of ValidBatches: a batch as old as the policy window is eligible
ValidBatchesInclusive(b, day, policy) ==
    {p_day \in DOMAIN b : (day - p_day) <= policy /\ b[p_day].current > 0}

\* lines 87-90
ValidBatches(b, day, policy) ==
    {p_day \in DOMAIN b : (day - p_day) < policy /\ b[p_day].current > 0}

\* line 96
TotalAvailable(b, valid) == SetSum([p_day \in valid |-> b[p_day].current], valid)

\* mutant of TotalPurchase: the proportion is taken for tenths
TotalPurchaseTenths(proportion, available) == RoundHalfEven(proportion * available, 10)
\* line 97, proportion in hundredths
TotalPurchase(proportion, available) == RoundHalfEven(proportion * available, 100)

\* mutant of Share: the rounded share is capped at the batch's stock only
ShareNoRemainderCap(cur, available, request, remaining) ==
    Min2(RoundHalfEven(cur * request, available), cur)

\* mutant of Share: the proportional share is truncated instead of rounded
ShareTruncated(cur, available, request, remaining) ==
    Min2(Min2((cur * request) \div available, cur), remaining)

\* lines 104-105
Share(cur, available, request, remaining) ==
    Min2(Min2(RoundHalfEven(cur * request, available), cur), remaining)

\* mutant of FinalShare: the remainder is not capped at the batch's stock
FinalShareUncapped(remaining, cur) == remaining

\* line 128
FinalShare(remaining, cur) == Min2(remaining, cur)

\* mutant of TransportCost: the rate is left out
TransportCostNoRate(share, distance, rate) == share * distance
\* lines 110 and 132
TransportCost(share, distance, rate) == share * distance * rate

\* lines 113-123 and 135-145
PurchaseRecord(prod_name, day, dist, p_day, share, rate) ==
    [Product |-> prod_name, Day |-> day, Distributor |-> dist.name,
     Batch_Day |-> p_day, Quantity |-> share, Shelf_Age |-> day - p_day,
     Policy |-> dist.policy_days, Proportion |-> Round2(dist.proportion),
     Transport_Cost |-> TransportCost(share, dist.distance_km, rate)]

\* mutant of DrawDown: the share is taken from a copy, the ledger keeps its stock
DrawDownCopy(b, p_day, share) == b

\* lines 106, 129: batch['current'] -= share
DrawDown(b, p_day, share) ==
    [b EXCEPT ![p_day].current = b[p_day].current - share]

\* mutant of RemoveEmpty: emptied batches stay in the ledger
RemoveEmptyNone(b, valid) == b

\* lines 148-150
RemoveEmpty(b, valid) ==
    Restrict(b, {p_day \in DOMAIN b : ~(p_day \in valid /\ b[p_day].current <= 0)})

\* line 164: production_plan.get(day, 0)
PlanGet(plan, day) == IF day \in DOMAIN plan THEN plan[day] ELSE 0

\* line 166: waste.get(day, 0)
WasteGet(w, day) == IF day \in DOMAIN w THEN w[day] ELSE 0

\* lines 167 and 173: round(expired / initial * 100, 2), in hundredths of a percent
WastePct(expired, initial) ==
    IF initial > 0 THEN RoundHalfEven(expired * 10000, initial) ELSE 0

\* lines 162-185
WasteTable(prod_name, plan, w, total_days) ==
    [day \in 1..total_days |->
        IF PlanGet(plan, day) > 0
        THEN [Product |-> prod_name, Batch_Day |-> day, Initial |-> PlanGet(plan, day),
              Waste |-> WasteGet(w, day),
              Waste_Pct |-> WastePct(WasteGet(w, day), PlanGet(plan, day))]
        ELSE [Product |-> prod_name, Batch_Day |-> day, Initial |-> 0, Waste |-> 0,
              Waste_Pct |-> 0]]

\* sum of Quantity over the records of ps that satisfy the test
RECURSIVE QuantitySum(_, _, _)
QuantitySum(ps, name, p_day) ==
    IF ps = <<>> THEN 0
    ELSE (IF Head(ps).Distributor = name /\ Head(ps).Batch_Day = p_day
          THEN Head(ps).Quantity ELSE 0) + QuantitySum(Tail(ps), name, p_day)

\* lines 196-198: the days 1..total_days that are not yet columns are added
\* after the columns pivot_table made (the batch days bought from, ascending)
AddMissingDays(cols, total_days) ==
    SortedKeys(cols) \o SortedKeys((1..total_days) \ cols)

\* mutant of SortColumns: the columns stay in the order they were added
KeepColumnOrder(cols) == cols
\* line 199: pivot[sorted(pivot.columns)]
SortColumns(cols) == SortedKeys(SeqRange(cols))

\* line 201: pd.DataFrame()
EmptyFrame == [index |-> {}, columns |-> <<>>, cells |-> EmptyFn]

\* lines 187-201: rows = the distributors that bought, columns = batch days,
\* cells = summed quantity; an empty frame when there is no purchase
BatchPivot(ps, total_days) ==
    IF ps = <<>> THEN EmptyFrame
    ELSE LET names == {ps[i].Distributor : i \in 1..Len(ps)}
             cols  == SortColumns(AddMissingDays({ps[i].Batch_Day : i \in 1..Len(ps)},
                                                 total_days))
         IN  [index |-> names, columns |-> cols,
              cells |-> [name \in names |->
                            [p_day \in SeqRange(cols) |-> QuantitySum(ps, name, p_day)]]]

\* SupplyChainApp._plot_results, lines 831-832: the bar of a product in the
\* chart "Total Sales per Product": sum of Initial less sum of Waste
TotalSales(table, total_days) ==
    SetSum([day \in 1..total_days |-> table[day].Initial], 1..total_days)
    - SetSum([day \in 1..total_days |-> table[day].Waste], 1..total_days)

\* mutants of FreshBatches and FreshPurchases: the ledger, or the purchase
\* list, is created once and carried from one product and run to the next
KeptBatches == batches
KeptPurchases == purchases

\* lines 38-41: the per-product locals
FreshBatches == EmptyFn

FreshPurchases == <<>>

\* mutant of FreshInventoryLog: the snapshot list is carried from one product
\* to the next
KeptInventoryLog == inventory_log
FreshInventoryLog == <<>>

FreshWaste == EmptyFn

\* line 29
FreshResults == EmptyFn

\* mutant of FreshTransportCost: the total goes on from where the last call left it
KeptTransportCost == total_transport_cost
\* line 30
FreshTransportCost == 0

\* lines 204-209
ProductResult(prod, ps, w, log, total_days) ==
    [purchases |-> ps,
     waste |-> WasteTable(prod.name, prod.production_plan, w, total_days),
     batch_pivot |-> BatchPivot(ps, total_days),
     inventory_log |-> log]

NoTurn == [done |-> FALSE, day |-> 0, dist |-> "", policy |-> 0, proportion |-> 0,
           avail |-> EmptyFn, shares |-> EmptyFn, request |-> 0]

\* no SupplyChainApp around the instance; no optimize_production call made
NoApp == [sim_days |-> 0, msg |-> "", weekly |-> <<>>]
NoOpt == [pc |-> "none"]

-----------------------------------------------------------------------------
(* Configurations the runs are made on *)

Qtys == {0, 1, 100}
ShelfLives == {1, 3, MaxShelf}
Policies == {2, MaxPolicy}
Proportions == {125, 500, 1000}

FirstQtys == Qtys \cup {3}

\* a plan for days 1..n: q1 on the first day, q on the others; empty when n = 0
PlanOf(n, q1, q) == [d \in 1..n |-> IF d = 1 THEN q1 ELSE q]
\* a plan of 3 a day that ends on a day of 1
TaperedPlan == [d \in 1..MaxPlanDay |-> IF d = MaxPlanDay THEN 1 ELSE 3]

Plans == {PlanOf(n, q1, q) : n \in {0, 1, MaxPlanDay}, q1 \in FirstQtys, q \in Qtys}
         \cup {TaperedPlan}

\* weekly purchase patterns, Monday first
AllWeek == [i \in 1..7 |-> TRUE]
MidAndEnd == [i \in 1..7 |-> i \in {4, 7}]
WeeklyPatterns == {AllWeek, MidAndEnd}

\* SupplyChainApp.add_distributor: the weekly pattern expanded over the horizon
FullPurchaseDays(pattern, days) == [day \in 1..days |-> pattern[((day - 1) % 7) + 1]]

Distributor(name, policy, prop, pattern, prefs, days) ==
    [name |-> name, policy_days |-> policy, proportion |-> prop, distance_km |-> 10,
     purchase_days |-> FullPurchaseDays(pattern, days), preferred_products |-> prefs]

\* the reference scenario of the specification
RefScenario ==
    [sim_days |-> 5, transport_rate |-> 1,
     product |-> [name |-> "B", shelf_life |-> 3, production_plan |-> (1 :> 100)],
     policy_days |-> 2, proportion |-> 500]
RefProduct == RefScenario.product
RefDistributor ==
    Distributor("D1", RefScenario.policy_days, RefScenario.proportion, AllWeek,
                {"A", "B"}, RefScenario.sim_days)

ProductsA ==
    {[name |-> "A", shelf_life |-> sl, production_plan |-> plan] :
        sl \in ShelfLives, plan \in Plans}

Catalogs == {<<a>> : a \in ProductsA} \cup {<<a, RefProduct>> : a \in ProductsA}
            \cup {<<RefProduct, a>> : a \in ProductsA} \cup {<<RefProduct>>}

FirstDistributors(days) ==
    {Distributor("D1", pol, prop, pat, {"A", "B"}, days) :
        pol \in Policies, prop \in Proportions, pat \in WeeklyPatterns}

SecondDistributors(days) ==
    {Distributor("D2", pol, 500, AllWeek, {"A"}, days) : pol \in Policies}

DistributorLists(days) ==
    {<<d>> : d \in FirstDistributors(days)}
    \cup {<<d, e>> : d \in FirstDistributors(days), e \in SecondDistributors(days)}

\* the state of a constructed instance (__init__, lines 19-25) before any run
Constructed(mode) ==
    /\ all_results = FreshResults
    /\ total_transport_cost = 0
    /\ total_waste_cost = 0
    /\ pc = "idle"
    /\ pi = 0
    /\ current_day = 0
    /\ batches = EmptyFn
    /\ purchases = <<>>
    /\ inventory_log = <<>>
    /\ waste = EmptyFn
    /\ di = 0
    /\ sorted_batches = <<>>
    /\ bi = 0
    /\ total_available = 0
    /\ total_purchase = 0
    /\ remaining_purchase = 0
    /\ turn = NoTurn
    /\ rerun = mode
    /\ prev_results = EmptyFn
    /\ prev_products = <<>>

Init ==
    /\ sim_days_override \in {RefScenario.sim_days, MaxDays}
    /\ products \in Catalogs
    /\ distributors \in DistributorLists(sim_days_override)
    /\ transport_rate = RefScenario.transport_rate
    /\ Constructed("none")
    /\ app = NoApp
    /\ opt = NoOpt

-----------------------------------------------------------------------------
(* run_simulation *)

total_days == sim_days_override
prod == products[pi]
sorted_distributors == SortedDistributors(distributors)
dist == sorted_distributors[di]

\* where control goes after distributor number i of the day
AfterDistributor(i) == IF i < Len(sorted_distributors) THEN "dist" ELSE "logend"

\* lines 27-31: the call resets the accumulators
RunBegin ==
    /\ pc = "idle" \/ (pc = "done" /\ rerun = "allowed")
    /\ all_results' = FreshResults
    /\ total_transport_cost' = FreshTransportCost
    /\ total_waste_cost' = 0
    /\ pi' = 1
    /\ pc' = "product"
    /\ rerun' = IF pc = "done" THEN "same" ELSE rerun
    /\ prev_results' = IF pc = "done" THEN all_results ELSE prev_results
    /\ prev_products' = IF pc = "done" THEN products ELSE prev_products
    /\ UNCHANGED <<app, opt>>
    /\ UNCHANGED <<products, distributors, transport_rate, sim_days_override,
                   current_day, batches, purchases, inventory_log, waste, di,
                   sorted_batches, bi, total_available, total_purchase,
                   remaining_purchase, turn>>

\* lines 33-41: next product of the catalog, with fresh locals
ProductBegin ==
    /\ pc = "product"
    /\ pi <= Len(products)
    /\ batches' = FreshBatches
    /\ purchases' = FreshPurchases
    /\ inventory_log' = FreshInventoryLog
    /\ waste' = FreshWaste
    /\ current_day' = 1
    /\ pc' = IF 1 <= total_days THEN "day" ELSE "compile"
    /\ UNCHANGED <<app, opt>>
    /\ UNCHANGED <<products, distributors, transport_rate, sim_days_override,
                   all_results, total_transport_cost, total_waste_cost, pi, di,
                   sorted_batches, bi, total_available, total_purchase,
                   remaining_purchase, turn, rerun, prev_results, prev_products>>

\* lines 44-58: batch creation and the Start snapshot
DayStart ==
    /\ pc = "day"
    /\ LET b == AddBatch(batches, prod.production_plan, current_day, prod.shelf_life)
       IN  /\ batches' = b
           /\ inventory_log' = Append(inventory_log, Snapshot(current_day, "Start", b))
    /\ pc' = "expire"
    /\ UNCHANGED <<app, opt>>
    /\ UNCHANGED <<products, distributors, transport_rate, sim_days_override,
                   all_results, total_transport_cost, total_waste_cost, pi,
                   current_day, purchases, waste, di, sorted_batches, bi,
                   total_available, total_purchase, remaining_purchase, turn,
                   rerun, prev_results, prev_products>>

\* lines 60-68: expiry, then the distributors are put in priority order
Expire ==
    /\ pc = "expire"
    /\ LET expired == ExpiredDays(batches, current_day)
       IN  /\ waste' = RecordWaste(waste, batches, expired)
           /\ batches' = RemoveBatches(batches, expired)
           /\ total_waste_cost' =
                  WasteCostAfter(total_waste_cost, batches, expired)
    /\ di' = 1
    /\ pc' = AfterDistributor(0)
    /\ UNCHANGED <<app, opt>>
    /\ UNCHANGED <<products, distributors, transport_rate, sim_days_override,
                   all_results, total_transport_cost, pi,
                   current_day, purchases, inventory_log, sorted_batches, bi,
                   total_available, total_purchase, remaining_purchase, turn,
                   rerun, prev_results, prev_products>>

\* lines 70-101: a distributor's turn up to the start of the batch loop; the
\* three `continue`s pass to the next distributor
DistTurn ==
    /\ pc = "dist"
    /\ LET valid == ValidBatches(batches, current_day, dist.policy_days)
           skip  == \/ ~Carries(dist, prod.name)
                    \/ NotPurchasing(dist, current_day)
                    \/ valid = {}
           avail == TotalAvailable(batches, valid)
           req   == TotalPurchase(Round2(dist.proportion), avail)
       IN  IF skip
           THEN /\ di' = di + 1
                /\ pc' = AfterDistributor(di)
                /\ UNCHANGED <<sorted_batches, bi, total_available, total_purchase,
                               remaining_purchase, turn>>
           ELSE /\ total_available' = avail
                /\ total_purchase' = req
                /\ remaining_purchase' = req
                /\ sorted_batches' = SortedKeys(valid)
                /\ bi' = 1
                /\ turn' = [done |-> FALSE, day |-> current_day, dist |-> dist.name,
                            policy |-> dist.policy_days,
                            proportion |-> Round2(dist.proportion),
                            avail |-> [p_day \in valid |-> batches[p_day].current],
                            shares |-> EmptyFn, request |-> req]
                /\ pc' = IF Cardinality(valid) > 1 THEN "share" ELSE "final"
                /\ UNCHANGED di
    /\ UNCHANGED <<app, opt>>
    /\ UNCHANGED <<products, distributors, transport_rate, sim_days_override,
                   all_results, total_transport_cost, total_waste_cost, pi,
                   current_day, batches, purchases, inventory_log, waste,
                   rerun, prev_results, prev_products>>

\* lines 103-123: one batch of sorted_batches[:-1]
AllocShare ==
    /\ pc = "share"
    /\ LET p_day == sorted_batches[bi]
           share == Share(batches[p_day].current, total_available, total_purchase,
                          remaining_purchase)
       IN  /\ batches' = DrawDown(batches, p_day, share)
           /\ remaining_purchase' = remaining_purchase - share
           /\ turn' = [turn EXCEPT !.shares = (p_day :> share) @@ @]
           /\ IF share > 0
              THEN /\ total_transport_cost' = total_transport_cost
                          + TransportCost(share, dist.distance_km, transport_rate)
                   /\ purchases' = Append(purchases,
                          PurchaseRecord(prod.name, current_day, dist, p_day, share,
                                         transport_rate))
              ELSE UNCHANGED <<total_transport_cost, purchases>>
    /\ bi' = bi + 1
    /\ pc' = IF bi + 1 < Len(sorted_batches) THEN "share" ELSE "final"
    /\ UNCHANGED <<app, opt>>
    /\ UNCHANGED <<products, distributors, transport_rate, sim_days_override,
                   all_results, total_waste_cost, pi, current_day, inventory_log,
                   waste, di, sorted_batches, total_available, total_purchase,
                   rerun, prev_results, prev_products>>

\* lines 125-145: the last batch takes the remainder
AllocFinal ==
    /\ pc = "final"
    /\ LET p_day == sorted_batches[Len(sorted_batches)]
           final_share == FinalShare(remaining_purchase, batches[p_day].current)
       IN  /\ batches' = DrawDown(batches, p_day, final_share)
           /\ turn' = [turn EXCEPT !.shares = (p_day :> final_share) @@ @]
           /\ IF final_share > 0
              THEN /\ total_transport_cost' = total_transport_cost
                          + TransportCost(final_share, dist.distance_km, transport_rate)
                   /\ purchases' = Append(purchases,
                          PurchaseRecord(prod.name, current_day, dist, p_day,
                                         final_share, transport_rate))
              ELSE UNCHANGED <<total_transport_cost, purchases>>
    /\ pc' = "cleanup"
    /\ UNCHANGED <<app, opt>>
    /\ UNCHANGED <<products, distributors, transport_rate, sim_days_override,
                   all_results, total_waste_cost, pi, current_day, inventory_log,
                   waste, di, sorted_batches, bi, total_available, total_purchase,
                   remaining_purchase, rerun, prev_results, prev_products>>

\* lines 147-150: the batches the turn emptied leave the ledger; the turn ends
RemoveEmptyBatches ==
    /\ pc = "cleanup"
    /\ batches' = RemoveEmpty(batches, SeqRange(sorted_batches))
    /\ turn' = [turn EXCEPT !.done = TRUE]
    /\ di' = di + 1
    /\ pc' = AfterDistributor(di)
    /\ UNCHANGED <<app, opt>>
    /\ UNCHANGED <<products, distributors, transport_rate, sim_days_override,
                   all_results, total_transport_cost, total_waste_cost, pi,
                   current_day, purchases, inventory_log, waste, sorted_batches, bi,
                   total_available, total_purchase, remaining_purchase, rerun,
                   prev_results, prev_products>>

\* lines 152-156: the End snapshot; the day loop advances
DayEnd ==
    /\ pc = "logend"
    /\ inventory_log' = Append(inventory_log, Snapshot(current_day, "End", batches))
    /\ current_day' = current_day + 1
    /\ pc' = IF current_day + 1 <= total_days THEN "day" ELSE "compile"
    /\ UNCHANGED <<app, opt>>
    /\ UNCHANGED <<products, distributors, transport_rate, sim_days_override,
                   all_results, total_transport_cost, total_waste_cost, pi, batches,
                   purchases, waste, di, sorted_batches, bi, total_available,
                   total_purchase, remaining_purchase, turn, rerun,
                   prev_results, prev_products>>

\* lines 158-209: the product's tables are stored under its name
Compile ==
    /\ pc = "compile"
    /\ all_results' = (prod.name :> ProductResult(prod, purchases, waste,
                                                   inventory_log, total_days))
                      @@ all_results
    /\ pi' = pi + 1
    /\ pc' = "product"
    /\ UNCHANGED <<app, opt>>
    /\ UNCHANGED <<products, distributors, transport_rate, sim_days_override,
                   total_transport_cost, total_waste_cost, current_day, batches,
                   purchases, inventory_log, waste, di, sorted_batches, bi,
                   total_available, total_purchase, remaining_purchase, turn,
                   rerun, prev_results, prev_products>>

\* line 211: return self.all_results
Return ==
    /\ pc = "product"
    /\ pi > Len(products)
    /\ pc' = "done"
    /\ UNCHANGED <<app, opt>>
    /\ UNCHANGED <<products, distributors, transport_rate, sim_days_override,
                   all_results, total_transport_cost, total_waste_cost, pi,
                   current_day, batches, purchases, inventory_log, waste, di,
                   sorted_batches, bi, total_available, total_purchase,
                   remaining_purchase, turn, rerun, prev_results, prev_products>>

Next ==
    \/ RunBegin
    \/ ProductBegin
    \/ DayStart
    \/ Expire
    \/ DistTurn
    \/ AllocShare
    \/ AllocFinal
    \/ RemoveEmptyBatches
    \/ DayEnd
    \/ Compile
    \/ Return

Spec == Init /\ [][Next]_vars

-----------------------------------------------------------------------------
(* A second run: on the same instance (RunBegin from "done"), or on an       *)
(* instance constructed over another catalog of the same products            *)

\* the catalogs (dict orders) that can be made of a pool of products
CatalogsOf(pool) ==
    {<<x>> : x \in pool}
    \cup ({<<x, y>> : x \in pool, y \in pool} \ {<<x, x>> : x \in pool})

\* __init__, lines 19-25, with the distributors, rate and horizon of before
Construct ==
    /\ pc = "done"
    /\ rerun = "allowed"
    /\ products' \in CatalogsOf(SeqRange(products) \cup {RefProduct})
    /\ prev_results' = all_results
    /\ prev_products' = products
    /\ rerun' = "new"
    /\ all_results' = FreshResults
    /\ total_transport_cost' = 0
    /\ total_waste_cost' = 0
    /\ pc' = "idle"
    /\ UNCHANGED <<app, opt>>
    /\ UNCHANGED <<distributors, transport_rate, sim_days_override, pi, current_day,
                   batches, purchases, inventory_log, waste, di, sorted_batches, bi,
                   total_available, total_purchase, remaining_purchase, turn>>

InitRerun ==
    /\ sim_days_override = RefScenario.sim_days
    /\ products \in Catalogs
    /\ distributors \in {ds \in DistributorLists(sim_days_override) :
                            ds[1].purchase_days = FullPurchaseDays(AllWeek, sim_days_override)}
    /\ transport_rate = RefScenario.transport_rate
    /\ Constructed("allowed")
    /\ app = NoApp
    /\ opt = NoOpt

NextRerun == Next \/ Construct

SpecRerun == InitRerun /\ [][NextRerun]_vars

-----------------------------------------------------------------------------
(* SupplyChainApp: the configuration handlers and the Run button.  The      *)
(* instance is built over the app's own products and distributors (the same  *)
(* objects), with the horizon read from the sim_days field at that moment.   *)

AppDefaultDays == 28       \* tk.IntVar(value=28)
AppDefaultRate == 1        \* tk.DoubleVar(value=0.01), in hundredths
MaxAppDistributors == 1    \* distributors added before the run

AppHorizons == {RefScenario.sim_days, MaxDays}
AppShelfLives == {0, 3}
AppPlanDays == {0, MaxDays - 2, MaxDays - 1}
AppProportions == {500, 1500}
AppDistributorNames == <<"D1", "D2", "D3">>

ProductNames(ps) == {ps[i].name : i \in 1..Len(ps)}

\* self.products[name] = {...}: a new key goes last, an old key keeps its place
PutProduct(ps, name, sl) ==
    LET new == [name |-> name, shelf_life |-> sl, production_plan |-> EmptyFn]
    IN  IF \E i \in 1..Len(ps) : ps[i].name = name
        THEN [i \in 1..Len(ps) |-> IF ps[i].name = name THEN new ELSE ps[i]]
        ELSE Append(ps, new)

\* self.products[prod_name]['production_plan'][day] = qty
PutProduction(ps, name, day, qty) ==
    [i \in 1..Len(ps) |->
        IF ps[i].name = name
        THEN [ps[i] EXCEPT !.production_plan = (day :> qty) @@ ps[i].production_plan]
        ELSE ps[i]]

\* the sim_days entry field is edited
SetSimDays ==
    /\ pc = "app"
    /\ \E n \in AppHorizons \ {app.sim_days} : app' = [app EXCEPT !.sim_days = n]
    /\ UNCHANGED <<products, distributors, transport_rate, sim_days_override,
                   all_results, total_transport_cost, total_waste_cost, pc, pi,
                   current_day, batches, purchases, inventory_log, waste, di,
                   sorted_batches, bi, total_available, total_purchase,
                   remaining_purchase, turn, rerun, prev_results, prev_products, opt>>

\* add_product, lines 588-603
AddProduct ==
    /\ pc = "app"
    /\ \E name \in {"A", "B"}, sl \in AppShelfLives :
          IF sl <= 0
          THEN /\ app' = [app EXCEPT !.msg = "Shelf life must be a positive integer."]
               /\ UNCHANGED products
          ELSE /\ products' = PutProduct(products, name, sl)
               /\ UNCHANGED app
    /\ UNCHANGED <<distributors, transport_rate, sim_days_override,
                   all_results, total_transport_cost, total_waste_cost, pc, pi,
                   current_day, batches, purchases, inventory_log, waste, di,
                   sorted_batches, bi, total_available, total_purchase,
                   remaining_purchase, turn, rerun, prev_results, prev_products, opt>>

\* add_production, lines 680-704
AddProduction ==
    /\ pc = "app"
    /\ \E name \in ProductNames(products), day \in AppPlanDays, qty \in {100} :
          IF day < 1 \/ qty < 0
          THEN /\ app' = [app EXCEPT !.msg = "Invalid input"]
               /\ UNCHANGED products
          ELSE /\ products' = PutProduction(products, name, day, qty)
               /\ UNCHANGED app
    /\ UNCHANGED <<distributors, transport_rate, sim_days_override,
                   all_results, total_transport_cost, total_waste_cost, pc, pi,
                   current_day, batches, purchases, inventory_log, waste, di,
                   sorted_batches, bi, total_available, total_purchase,
                   remaining_purchase, turn, rerun, prev_results, prev_products, opt>>

\* add_distributor, lines 617-669: the weekly pattern is expanded over the
\* horizon the sim_days field holds now
AddDistributor ==
    /\ pc = "app"
    /\ Len(distributors) < MaxAppDistributors
    /\ \E policy \in {RefScenario.policy_days}, prop \in AppProportions,
          pattern \in WeeklyPatterns, selected \in SUBSET ProductNames(products) :
          IF policy <= 0 \/ prop <= 0 \/ prop > 1000
          THEN /\ app' = [app EXCEPT !.msg = "Invalid numeric values."]
               /\ UNCHANGED distributors
          ELSE IF selected = {}
          THEN /\ app' = [app EXCEPT !.msg = "Select at least one product for this distributor."]
               /\ UNCHANGED distributors
          ELSE /\ distributors' =
                     Append(distributors,
                            Distributor(AppDistributorNames[Len(distributors) + 1], policy,
                                        Round2(prop) * 10, pattern, selected, app.sim_days))
               /\ app' = [app EXCEPT !.weekly = Append(@, pattern)]
    /\ UNCHANGED <<products, transport_rate, sim_days_override,
                   all_results, total_transport_cost, total_waste_cost, pc, pi,
                   current_day, batches, purchases, inventory_log, waste, di,
                   sorted_batches, bi, total_available, total_purchase,
                   remaining_purchase, turn, rerun, prev_results, prev_products, opt>>

\* SupplyChainApp.run_simulation, lines 715-729: the checks, then the instance
AppRunSimulation ==
    /\ pc = "app"
    /\ app.sim_days <= MaxDays
    /\ IF products = <<>>
       THEN /\ app' = [app EXCEPT !.msg = "Add at least one product."]
            /\ UNCHANGED <<sim_days_override, pc>>
       ELSE IF \E i \in 1..Len(products) : products[i].production_plan = EmptyFn
       THEN /\ app' = [app EXCEPT !.msg = "Add production"]
            /\ UNCHANGED <<sim_days_override, pc>>
       ELSE IF distributors = <<>>
       THEN /\ app' = [app EXCEPT !.msg = "Add at least one distributor."]
            /\ UNCHANGED <<sim_days_override, pc>>
       ELSE /\ sim_days_override' = app.sim_days
            /\ pc' = "idle"
            /\ UNCHANGED app
    /\ UNCHANGED <<products, distributors, transport_rate,
                   all_results, total_transport_cost, total_waste_cost, pi,
                   current_day, batches, purchases, inventory_log, waste, di,
                   sorted_batches, bi, total_available, total_purchase,
                   remaining_purchase, turn, rerun, prev_results, prev_products, opt>>

\* lines 731-734: the results are shown
DisplayResults ==
    /\ pc = "done"
    /\ app # NoApp
    /\ app' = [app EXCEPT !.msg = "Simulation completed successfully!"]
    /\ pc' = "shown"
    /\ UNCHANGED <<products, distributors, transport_rate, sim_days_override,
                   all_results, total_transport_cost, total_waste_cost, pi,
                   current_day, batches, purchases, inventory_log, waste, di,
                   sorted_batches, bi, total_available, total_purchase,
                   remaining_purchase, turn, rerun, prev_results, prev_products, opt>>

\* SupplyChainApp.__init__: nothing configured, no instance yet
InitApp ==
    /\ products = <<>>
    /\ distributors = <<>>
    /\ transport_rate = AppDefaultRate
    /\ app = [sim_days |-> AppDefaultDays, msg |-> "", weekly |-> <<>>]
    /\ sim_days_override = 0
    /\ all_results = FreshResults
    /\ total_transport_cost = 0
    /\ total_waste_cost = 0
    /\ pc = "app"
    /\ pi = 0
    /\ current_day = 0
    /\ batches = EmptyFn
    /\ purchases = <<>>
    /\ inventory_log = <<>>
    /\ waste = EmptyFn
    /\ di = 0
    /\ sorted_batches = <<>>
    /\ bi = 0
    /\ total_available = 0
    /\ total_purchase = 0
    /\ remaining_purchase = 0
    /\ turn = NoTurn
    /\ rerun = "none"
    /\ prev_results = EmptyFn
    /\ prev_products = <<>>
    /\ opt = NoOpt

NextApp ==
    \/ SetSimDays
    \/ AddProduct
    \/ AddProduction
    \/ AddDistributor
    \/ AppRunSimulation
    \/ DisplayResults
    \/ Next

SpecApp == InitApp /\ [][NextApp]_vars

-----------------------------------------------------------------------------
(* PerishableSupplyChain constructed directly, over values that the app's    *)
(* add_product and add_distributor would have turned away                    *)

UncheckedShelfLives == {0, 3}
UncheckedProportions == {500, 1500}

InitUnchecked ==
    /\ sim_days_override = MaxDays
    /\ products \in {<<[name |-> "A", shelf_life |-> sl, production_plan |-> plan]>> :
                        sl \in UncheckedShelfLives, plan \in Plans}
    /\ distributors \in {<<Distributor("D1", pol, prop, AllWeek, {"A"}, sim_days_override)>> :
                            pol \in Policies, prop \in UncheckedProportions}
    /\ transport_rate = RefScenario.transport_rate
    /\ Constructed("none")
    /\ app = NoApp
    /\ opt = NoOpt

SpecUnchecked == InitUnchecked /\ [][Next]_vars

-----------------------------------------------------------------------------
(* optimize_production: the integer program, the solver call and the         *)
(* recommendation.  Objective coefficients are in 1/100000 of a currency     *)
(* unit (a proportion in thousandths times a rate in hundredths).  The       *)
(* solver is outside the repository: it ends either with an optimal          *)
(* assignment of the program it was given, or without assigning any value.   *)

MaxProduce == 1            \* largest value considered for a decision variable
OptWasteTerm == 10000      \* waste_cost_per_unit * 0.1 = 1.0 * 0.1
OptTransportRate == 1      \* transport_rate = 0.01, in hundredths

OptHorizons == {1, MaxDays, MaxDays + 1}

\* line 215: days = list(range(1, sim_days + 1))
OptDays(sim_days) == 1..sim_days

\* lines 232-234: the days d of the policy window of a batch of this day that
\* are inside the horizon and are not Sundays
TransportDays(day, policy, sim_days) ==
    {d \in day..(Min2(day + policy, sim_days + 1) - 1) : d % 7 # 0}

\* mutant of ObjectiveCoef: a unit produced earns instead of costing
ObjectiveCoefGain(day, ds, sim_days) == 0 - OptWasteTerm

\* lines 226-234: the coefficient of x[day] in total_cost
ObjectiveCoef(day, ds, sim_days) ==
    OptWasteTerm
    + SetSum([i \in 1..Len(ds) |->
                Cardinality(TransportDays(day, ds[i].policy_days, sim_days))
                * ds[i].proportion * OptTransportRate],
             1..Len(ds))

\* lines 239-242: the days whose variable is constrained to 0
ClosedDays(sim_days) == {day \in OptDays(sim_days) : day % 7 = 0}

\* mutant of LowBound: the variables are declared without a lower bound
NoLowBound == 0 - MaxProduce
\* line 216: lowBound=0
LowBound == 0

\* lines 216 and 239-242
Feasible(x, p) ==
    \A day \in p.days : /\ x[day] >= p.lowBound
                        /\ day \in p.closed => x[day] = 0

Cost(x, p) == SetSum([day \in p.days |-> p.coef[day] * x[day]], p.days)

Assignments(p) == [p.days -> p.lowBound..MaxProduce]

\* the optimal assignments of the program (LpMinimize, line 218)
OptimalAssignments(p) ==
    LET feasible == {x \in Assignments(p) : Feasible(x, p)}
        best == CHOOSE c \in {Cost(x, p) : x \in feasible} :
                    \A x \in feasible : c <= Cost(x, p)
    IN  {x \in feasible : Cost(x, p) = best}

\* a varValue: None until the solver assigns a number
NoValue == [assigned |-> FALSE, value |-> 0]
Value(n) == [assigned |-> TRUE, value |-> n]

\* line 245: prob.solve(...) leaves every varValue None, or sets an optimum
SolverOutcomes(p) ==
    {[status |-> "Not Solved", varValue |-> [day \in p.days |-> NoValue]]}
    \cup {[status |-> "Optimal", varValue |-> [day \in p.days |-> Value(x[day])]] :
             x \in OptimalAssignments(p)}

\* mutant of VarToInt: int(x[day].varValue), which has no number to give for None
VarToIntStrict(v) == IF v.assigned THEN v.value ELSE 0 - 1
\* line 247: int(x[day].varValue or 0)
VarToInt(v) == IF v.assigned /\ v.value # 0 THEN v.value ELSE 0

\* lines 215-242: variables, objective and constraints
OptBuild ==
    /\ opt.pc = "none"
    /\ \E sim_days \in OptHorizons, shelf_life \in ShelfLives :
          opt' = [pc |-> "built", sim_days |-> sim_days, shelf_life |-> shelf_life,
                  days |-> OptDays(sim_days), lowBound |-> LowBound,
                  coef |-> [day \in OptDays(sim_days) |->
                               ObjectiveCoef(day, distributors, sim_days)],
                  closed |-> ClosedDays(sim_days)]
    /\ UNCHANGED <<products, distributors, transport_rate, sim_days_override,
                   all_results, total_transport_cost, total_waste_cost, pc, pi,
                   current_day, batches, purchases, inventory_log, waste, di,
                   sorted_batches, bi, total_available, total_purchase,
                   remaining_purchase, turn, rerun, prev_results, prev_products, app>>

\* line 245
OptSolve ==
    /\ opt.pc = "built"
    /\ \E o \in SolverOutcomes(opt) :
          opt' = [pc |-> "solved", sim_days |-> opt.sim_days, days |-> opt.days,
                  status |-> o.status, varValue |-> o.varValue]
    /\ UNCHANGED <<products, distributors, transport_rate, sim_days_override,
                   all_results, total_transport_cost, total_waste_cost, pc, pi,
                   current_day, batches, purchases, inventory_log, waste, di,
                   sorted_batches, bi, total_available, total_purchase,
                   remaining_purchase, turn, rerun, prev_results, prev_products, app>>

\* lines 247-248
OptReturn ==
    /\ opt.pc = "solved"
    /\ opt' = [pc |-> "returned", sim_days |-> opt.sim_days, status |-> opt.status,
               recommendation |-> [day \in opt.days |-> VarToInt(opt.varValue[day])]]
    /\ UNCHANGED <<products, distributors, transport_rate, sim_days_override,
                   all_results, total_transport_cost, total_waste_cost, pc, pi,
                   current_day, batches, purchases, inventory_log, waste, di,
                   sorted_batches, bi, total_available, total_purchase,
                   remaining_purchase, turn, rerun, prev_results, prev_products, app>>

\* an instance as SupplyChainApp.optimize_production builds it (lines 780-785)
InitOptimize ==
    /\ sim_days_override = MaxDays
    /\ products = <<RefProduct>>
    /\ distributors \in DistributorLists(sim_days_override)
    /\ transport_rate = RefScenario.transport_rate
    /\ Constructed("none")
    /\ app = NoApp
    /\ opt = NoOpt

NextOptimize ==
    \/ OptBuild
    \/ OptSolve
    \/ OptReturn

SpecOptimize == InitOptimize /\ [][NextOptimize]_vars

-----------------------------------------------------------------------------
(* Runs with other transport rates and with distances that differ from one   *)
(* distributor to the next                                                   *)

Rates == {2, 5}
Distances == <<10, 25>>

InitRates ==
    /\ sim_days_override = RefScenario.sim_days
    /\ products \in {<<a, RefProduct>> : a \in ProductsA}
    /\ distributors \in {[i \in 1..Len(ds) |-> [ds[i] EXCEPT !.distance_km = Distances[i]]] :
                            ds \in DistributorLists(sim_days_override)}
    /\ transport_rate \in Rates
    /\ Constructed("none")
    /\ app = NoApp
    /\ opt = NoOpt

SpecRates == InitRates /\ [][Next]_vars

-----------------------------------------------------------------------------
(* Vocabulary of the properties *)

InDayLoop == pc \in {"day", "expire", "dist", "share", "final", "cleanup", "logend"}

\* a simulated day has just ended: the End snapshot is taken
AtEndOfDay == pc \in {"day", "compile"} /\ current_day > 1
DayEnded == current_day - 1

RECURSIVE BoughtFrom(_, _)
BoughtFrom(ps, p_day) ==
    IF ps = <<>> THEN 0
    ELSE (IF Head(ps).Batch_Day = p_day THEN Head(ps).Quantity ELSE 0)
         + BoughtFrom(Tail(ps), p_day)

Held(p_day) == IF p_day \in DOMAIN batches THEN batches[p_day].current ELSE 0

CreatedBy(day) == {p_day \in 1..day : Produces(prod.production_plan, p_day)}

DistributorNamed(name) ==
    CHOOSE d \in SeqRange(distributors) : d.name = name

\* every purchase record produced so far in this run
RecordsSoFar ==
    SeqRange(purchases)
    \cup UNION {SeqRange(all_results[n].purchases) : n \in DOMAIN all_results}

TurnShares == SetSum(turn.shares, DOMAIN turn.shares)
TurnAvailable == SetSum(turn.avail, DOMAIN turn.avail)

-----------------------------------------------------------------------------
(* C1 *)

\* C1: at the end of every simulated day, every batch created so far has
\* initial = waste recorded for it + quantity purchased from it + quantity it
\* still holds in the ledger (0 once removed).
C1_Conservation ==
    AtEndOfDay =>
        \A p_day \in CreatedBy(DayEnded) :
            prod.production_plan[p_day]
                = WasteGet(waste, p_day) + BoughtFrom(purchases, p_day) + Held(p_day)

C1_Witness ==
    /\ AtEndOfDay
    /\ \E p_day \in CreatedBy(DayEnded) :
          WasteGet(waste, p_day) > 0 /\ BoughtFrom(purchases, p_day) > 0
    /\ \E p_day \in CreatedBy(DayEnded) :
          Held(p_day) > 0 /\ BoughtFrom(purchases, p_day) > 0

-----------------------------------------------------------------------------
(* C2 *)

\* C2: when a distributor's turn ends, the quantities it was allocated sum to
\* round(proportion x total_available), whatever the number of eligible
\* batches and their stock.
C2_RoundingAbsorption ==
    turn.done =>
        TurnShares = RoundHalfEven(turn.proportion * TurnAvailable, 100)

-----------------------------------------------------------------------------
(* C3 *)

\* C3 as stated: in one turn, a younger eligible batch is drawn down only if
\* every older eligible batch is drawn down too.
C3_StrictFifo ==
    \A old \in DOMAIN turn.shares : \A young \in DOMAIN turn.shares :
        (old < young /\ turn.shares[young] > 0) => turn.shares[old] > 0

\* C3 amended: in one turn, when a younger eligible batch is drawn down, every
\* older eligible batch whose proportional share
\* round(current / total_available x total_purchase) is at least 1 is drawn
\* down too; batches are drawn in ascending batch-day order.
C3_ProportionalOldestFirst ==
    /\ \A old \in DOMAIN turn.shares : \A young \in DOMAIN turn.shares :
          (/\ old < young
           /\ turn.shares[young] > 0
           /\ RoundHalfEven(turn.avail[old] * turn.request, TurnAvailable) >= 1)
          => turn.shares[old] > 0
    /\ pc = "share" =>
          \A i \in 1..Len(sorted_batches) :
              (i < bi) <=> (sorted_batches[i] \in DOMAIN turn.shares)

C3_Witness ==
    /\ turn.done
    /\ \E old \in DOMAIN turn.shares : \E young \in DOMAIN turn.shares :
          /\ old < young
          /\ turn.shares[young] > 0
          /\ turn.shares[old] > 0
          /\ turn.shares[old] < turn.avail[old]

-----------------------------------------------------------------------------
(* C4 *)

\* C4: no purchase record has a Day that is a multiple of 7, nor a Day that
\* its distributor's purchase calendar marks as closed.
C4_NoPurchaseWhenClosed ==
    \A r \in RecordsSoFar :
        /\ r.Day % 7 # 0
        /\ r.Day <= Len(DistributorNamed(r.Distributor).purchase_days)
        /\ DistributorNamed(r.Distributor).purchase_days[r.Day]

\* at the end of a closure day, and of a day its calendar closes, a
\* distributor that carries the product has passed over eligible stock
C4_Witness ==
    /\ pc = "logend"
    /\ \E d \in SeqRange(distributors) :
          /\ Carries(d, prod.name)
          /\ ValidBatches(batches, current_day, d.policy_days) # {}
          /\ current_day % 7 = 0
          /\ d.purchase_days[current_day]
    /\ \E d \in SeqRange(distributors) : \E r \in SeqRange(inventory_log) :
          /\ Carries(d, prod.name)
          /\ r.Phase = "End"
          /\ r.Day % 7 # 0
          /\ ~d.purchase_days[r.Day]
          /\ \E p_day \in DOMAIN r.Q : r.Day - p_day < d.policy_days

-----------------------------------------------------------------------------
(* C5 *)

\* C5: every purchase record has Shelf_Age = Day - Batch_Day, Policy = the
\* policy window of its distributor, and 0 <= Shelf_Age < Policy.
C5_WithinPolicyWindow ==
    \A r \in RecordsSoFar :
        /\ r.Shelf_Age = r.Day - r.Batch_Day
        /\ r.Policy = DistributorNamed(r.Distributor).policy_days
        /\ 0 <= r.Shelf_Age
        /\ r.Shelf_Age < r.Policy

\* a turn that bought while a stocked batch beyond the window stayed untouched
C5_Witness ==
    /\ turn.done
    /\ pc \in {"dist", "logend"}
    /\ turn.day = current_day
    /\ TurnShares > 0
    /\ \E p_day \in DOMAIN batches :
          /\ batches[p_day].current > 0
          /\ current_day - p_day >= turn.policy

-----------------------------------------------------------------------------
(* C6 *)

C6_Bounded == \A p_day \in DOMAIN batches :
    0 <= batches[p_day].current /\ batches[p_day].current <= batches[p_day].initial

C6_NoIncrease ==
    \A p_day \in DOMAIN batches \cap DOMAIN batches' :
        batches'[p_day].current <= batches[p_day].current

\* C6: in every state, mid-allocation included, every batch of the ledger has
\* 0 <= current <= initial, and no step increases a batch's current.
C6_BatchQuantity == [](C6_Bounded) /\ [][C6_NoIncrease]_vars

\* mid-allocation: part of the turn's batches drawn down, the last one pending
C6_Witness ==
    /\ pc \in {"final", "cleanup"}
    /\ Len(sorted_batches) > 1
    /\ \E p_day \in DOMAIN batches :
          0 < batches[p_day].current /\ batches[p_day].current < batches[p_day].initial
    /\ \E p_day \in DOMAIN batches : batches[p_day].current = 0

-----------------------------------------------------------------------------
(* C7 *)

LedgerCleanAt(day) ==
    \A p_day \in DOMAIN batches :
        batches[p_day].current # 0 /\ batches[p_day].expiry > day

-----------------------------------------------------------------------------
(* C8 *)

IsRefScenario ==
    /\ products = <<RefProduct>>
    /\ distributors = <<RefDistributor>>
    /\ sim_days_override = RefScenario.sim_days
    /\ transport_rate = RefScenario.transport_rate

RefPurchase(day, qty) ==
    [Product |-> "B", Day |-> day, Distributor |-> "D1", Batch_Day |-> 1,
     Quantity |-> qty, Shelf_Age |-> day - 1, Policy |-> 2, Proportion |-> 50,
     Transport_Cost |-> qty * 10]

\* C8: the reference scenario yields exactly the purchases (day 1, 50) and
\* (day 2, 25) from batch 1, waste 25 for batch 1 recorded on day 3, total
\* purchased 75 and waste percentage 25.0.
C8_ReferenceScenario ==
    IsRefScenario =>
        /\ pc = "done" =>
              /\ all_results["B"].purchases = <<RefPurchase(1, 50), RefPurchase(2, 25)>>
              /\ all_results["B"].waste[1].Initial = 100
              /\ all_results["B"].waste[1].Waste = 25
              /\ all_results["B"].waste[1].Waste_Pct = 2500
              /\ \A d \in 2..RefScenario.sim_days : all_results["B"].waste[d].Waste = 0
              /\ BoughtFrom(all_results["B"].purchases, 1) = 75
        /\ InDayLoop =>
              waste = IF current_day > 3 \/ (current_day = 3 /\ pc \notin {"day", "expire"})
                      THEN (1 :> 25) ELSE EmptyFn

C8_Witness == IsRefScenario /\ pc = "done" /\ "B" \in DOMAIN all_results

-----------------------------------------------------------------------------
(* C9 *)

InSecondRun == rerun \in {"same", "new"}
SecondRunDone == pc = "done" /\ InSecondRun

\* C9: a second run with identical products, distributors, rate and horizon,
\* on the same instance or on a new one, returns the tables of the first run,
\* row for row.
C9_RerunIdentical ==
    (InSecondRun /\ products = prev_products) =>
        /\ \A n \in DOMAIN all_results :
              n \in DOMAIN prev_results /\ all_results[n] = prev_results[n]
        /\ pc = "done" => all_results = prev_results

C9_Witness ==
    /\ SecondRunDone
    /\ rerun = "same"
    /\ products = prev_products
    /\ Len(products) = 2
    /\ \A n \in DOMAIN all_results :
          /\ all_results[n].purchases # <<>>
          /\ \E d \in 1..sim_days_override : all_results[n].waste[d].Waste > 0

C9_WitnessNewInstance ==
    /\ SecondRunDone
    /\ rerun = "new"
    /\ products = prev_products
    /\ \E n \in DOMAIN all_results : all_results[n].purchases # <<>>

-----------------------------------------------------------------------------
(* C10 *)

\* C10: the tables of a product are the same whatever other products the
\* catalog holds and in whatever order they are simulated.
C10_ProductIndependence ==
    InSecondRun =>
        \A n \in DOMAIN all_results \cap DOMAIN prev_results :
            all_results[n] = prev_results[n]

\* the two products simulated in one order, then in the other
C10_Witness ==
    /\ SecondRunDone
    /\ Len(products) = 2
    /\ Len(prev_products) = 2
    /\ products # prev_products
    /\ DOMAIN all_results = DOMAIN prev_results
    /\ \A n \in DOMAIN all_results : all_results[n].purchases # <<>>
    /\ all_results[products[1].name].inventory_log
          # all_results[products[2].name].inventory_log

-----------------------------------------------------------------------------
\* the weekly pattern that was ticked when the distributor of this name was added
TickedPattern(name) ==
    app.weekly[CHOOSE i \in 1..Len(distributors) : distributors[i].name = name]

\* C11: whatever configuration operations (setting the horizon, adding
\* distributors) came before the run, on every simulated day a distributor
\* that carries the product is treated as purchasing exactly when its weekly
\* pattern is true for that weekday and the day is not a closure day: its
\* calendar has an entry for every day up to the horizon in force at run time.
C11_CalendarCoversHorizon ==
    (pc = "dist" /\ app # NoApp /\ Carries(dist, prod.name))
        => /\ Len(dist.purchase_days) >= total_days
           /\ (~NotPurchasing(dist, current_day))
                 <=> (/\ TickedPattern(dist.name)[((current_day - 1) % 7) + 1]
                      /\ current_day % 7 # 0)

-----------------------------------------------------------------------------
InvalidConfiguration ==
    \/ \E i \in 1..Len(products) : products[i].shelf_life <= 0
    \/ \E i \in 1..Len(distributors) :
          distributors[i].proportion <= 0 \/ distributors[i].proportion > 1000

\* C12: a product with shelf life <= 0, or a distributor with proportion
\* outside (0, 1], never reaches the day loop: the run is refused and no
\* purchase, waste or snapshot record is produced.
C12_InvalidNeverSimulated ==
    InvalidConfiguration
        => /\ ~InDayLoop
           /\ purchases = <<>>
           /\ inventory_log = <<>>
           /\ waste = EmptyFn
           /\ all_results = EmptyFn

-----------------------------------------------------------------------------
HasEmptyPlan(p) == p.production_plan = EmptyFn

\* the tables of a product for which nothing was ever produced or bought
NoOpTables(res, days) ==
    /\ res.purchases = <<>>
    /\ DOMAIN res.waste = 1..days
    /\ \A d \in 1..days : res.waste[d].Initial = 0 /\ res.waste[d].Waste = 0
    /\ Len(res.inventory_log) = 2 * days
    /\ \A i \in 1..Len(res.inventory_log) : res.inventory_log[i].Q = EmptyFn

-----------------------------------------------------------------------------
Returned == opt.pc = "returned"

\* C14: the recommendation returned by optimize_production has exactly one
\* entry for each day 1..horizon, every entry is a non-negative integer, and
\* the entry of every day with day % 7 = 0 is 0.
C14_ClosureDaysZero ==
    Returned
        => /\ DOMAIN opt.recommendation = 1..opt.sim_days
           /\ \A day \in 1..opt.sim_days :
                 /\ opt.recommendation[day] \in Nat
                 /\ day % 7 = 0 => opt.recommendation[day] = 0

\* a recommendation from a solved program over a horizon with a closure day
C14_Witness ==
    /\ Returned
    /\ opt.status = "Optimal"
    /\ opt.sim_days > 7
    /\ Len(distributors) = 2

\* C15: when the solver ends without assigning a value to the decision
\* variables, optimize_production still returns, with 0 for every day.
C15_NoSolutionGivesZeros ==
    (Returned /\ opt.status # "Optimal")
        => opt.recommendation = [day \in 1..opt.sim_days |-> 0]

C15_Witness ==
    /\ Returned
    /\ opt.status = "Not Solved"
    /\ opt.sim_days >= 7

-----------------------------------------------------------------------------
ProductNamed(name) == products[CHOOSE i \in 1..Len(products) : products[i].name = name]

\* what the batch of this day had left when it expired, read from the Start
\* snapshot of its expiry day; 0 when it did not expire with stock in the run
LeftAtExpiry(p, res, day) ==
    LET e == day + p.shelf_life - 1
    IN  IF e <= total_days /\ day \in DOMAIN res.inventory_log[2 * e - 1].Q
        THEN res.inventory_log[2 * e - 1].Q[day]
        ELSE 0

\* the rows of a waste table, but for the percentage column
WasteRows(p, res) ==
    /\ DOMAIN res.waste = 1..total_days
    /\ \A day \in 1..total_days :
          LET row == res.waste[day]
          IN  /\ row.Batch_Day = day
              /\ row.Product = p.name
              /\ IF PlanGet(p.production_plan, day) > 0
                 THEN /\ row.Initial = p.production_plan[day]
                      /\ row.Waste = LeftAtExpiry(p, res, day)
                 ELSE row.Initial = 0 /\ row.Waste = 0 /\ row.Waste_Pct = 0

\* C16, as the specification has it: one row per day 1..horizon in ascending
\* order; a day without positive planned production has Initial 0, Waste 0
\* and percentage 0; a day with production has Initial = the planned quantity,
\* Waste = what the batch had left when it expired, and percentage equal to
\* Waste / Initial x 100.
C16_ExactPercentage ==
    pc = "done" =>
        \A n \in DOMAIN all_results :
            /\ WasteRows(ProductNamed(n), all_results[n])
            /\ \A day \in 1..total_days :
                  LET row == all_results[n].waste[day]
                  IN  row.Initial > 0 => row.Waste_Pct * row.Initial = row.Waste * 10000

\* C16, amended: the same rows, the percentage being Waste / Initial x 100
\* rounded to two decimals (the hundredth nearest to it).
C16_WasteTable ==
    pc = "done" =>
        \A n \in DOMAIN all_results :
            /\ WasteRows(ProductNamed(n), all_results[n])
            /\ \A day \in 1..total_days :
                  LET row  == all_results[n].waste[day]
                      diff == row.Waste_Pct * row.Initial - row.Waste * 10000
                  IN  row.Initial > 0 => /\ 2 * diff <= row.Initial
                                         /\ 2 * (0 - diff) <= row.Initial

\* a table with a row of a batch partly sold and partly wasted, the percentage
\* not a whole number of hundredths, a row of a day without production and a
\* row of a batch that did not expire within the run
C16_Witness ==
    /\ pc = "done"
    /\ \E n \in DOMAIN all_results :
          LET t == all_results[n].waste
              p == ProductNamed(n)
          IN  /\ \E day \in 1..total_days :
                    /\ t[day].Waste > 0
                    /\ t[day].Waste < t[day].Initial
                    /\ t[day].Waste_Pct * t[day].Initial # t[day].Waste * 10000
              /\ \E day \in 1..total_days : t[day].Initial = 0
              /\ \E day \in 1..total_days :
                    t[day].Initial > 0 /\ day + p.shelf_life - 1 > total_days

-----------------------------------------------------------------------------
AllDays == [day \in 1..total_days |-> day]

\* the quantity the records of ps give to this distributor from this batch
SoldTo(ps, name, p_day) ==
    LET match == {i \in 1..Len(ps) : ps[i].Distributor = name /\ ps[i].Batch_Day = p_day}
    IN  SetSum([i \in match |-> ps[i].Quantity], match)

\* columns 1..horizon in ascending order; every cell the sum of its records
FullPivot(res) ==
    /\ res.batch_pivot.columns = AllDays
    /\ \A name \in res.batch_pivot.index, p_day \in 1..total_days :
          res.batch_pivot.cells[name][p_day] = SoldTo(res.purchases, name, p_day)

-----------------------------------------------------------------------------
StartRow(log, day) == log[2 * day - 1]
EndRow(log, day) == log[2 * day]

\* the rows alternate Start, End, day by day
RowsInOrder(log) ==
    \A i \in 1..Len(log) :
        /\ log[i].Day = (i + 1) \div 2
        /\ log[i].Phase = IF i % 2 = 1 THEN "Start" ELSE "End"

\* the Start row of this day lists the batch created on it, with the planned
\* quantity, and every batch expiring on it, with the quantity it is wasted with
StartRowOf(p, log, w, day) ==
    /\ Produces(p.production_plan, day)
          => /\ day \in DOMAIN StartRow(log, day).Q
             /\ StartRow(log, day).Q[day] = p.production_plan[day]
    /\ \A p_day \in DOMAIN w :
          p_day + p.shelf_life - 1 = day
              => /\ p_day \in DOMAIN StartRow(log, day).Q
                 /\ StartRow(log, day).Q[p_day] = w[p_day]

\* the End row of this day lists no batch that expired by then, and of every
\* other batch of the Start row what the day's purchases (ps) left of it,
\* unless they left nothing
EndRowOf(p, log, ps, day) ==
    LET start == StartRow(log, day).Q
        end   == EndRow(log, day).Q
        left(p_day) == start[p_day] - SetSum([i \in {j \in 1..Len(ps) :
                                                        /\ ps[j].Day = day
                                                        /\ ps[j].Batch_Day = p_day}
                                                 |-> ps[i].Quantity],
                                             {j \in 1..Len(ps) :
                                                 ps[j].Day = day /\ ps[j].Batch_Day = p_day})
    IN  /\ DOMAIN end = {p_day \in DOMAIN start :
                            p_day + p.shelf_life - 1 # day /\ left(p_day) > 0}
        /\ \A p_day \in DOMAIN end : end[p_day] = left(p_day)

-----------------------------------------------------------------------------
\* every record so far has a positive quantity and the cost of carrying it;
\* the accumulator holds the sum of the costs of the records
C19_Records ==
    /\ \A r \in RecordsSoFar :
          /\ r.Quantity > 0
          /\ r.Transport_Cost
                = r.Quantity * DistributorNamed(r.Distributor).distance_km * transport_rate
    /\ pc # "idle" =>
          total_transport_cost
              = SetSum([r \in RecordsSoFar |-> r.Transport_Cost], RecordsSoFar)

\* an allocation step appends one record, of the quantity allocated, when that
\* quantity is not zero, and none when it is
C19_Step ==
    pc \in {"share", "final"} =>
        LET p_day == CHOOSE p \in DOMAIN turn'.shares : p \notin DOMAIN turn.shares
            share == turn'.shares[p_day]
        IN  IF share # 0
            THEN /\ Len(purchases') = Len(purchases) + 1
                 /\ SubSeq(purchases', 1, Len(purchases)) = purchases
                 /\ LET r == purchases'[Len(purchases')]
                    IN  /\ r.Quantity = share
                        /\ r.Batch_Day = p_day
                        /\ r.Day = current_day
                        /\ r.Distributor = turn.dist
                        /\ r.Product = prod.name
            ELSE purchases' = purchases

\* C19: every allocation of a nonzero quantity appends exactly one purchase
\* record, with Quantity > 0 and Transport_Cost = Quantity x distance x
\* transport_rate; a zero allocation appends none; total_transport_cost is the
\* sum of Transport_Cost over the purchase records of all products of the run,
\* at its end as at every moment of it.
C19_PurchaseRecords == [](C19_Records) /\ [][C19_Step]_vars

\* the end of a run in which the first product was bought by both
\* distributors and the second by one, and in which a distributor, alone to
\* buy that day, was allocated nothing of a batch of its window
C19_Witness ==
    /\ pc = "done"
    /\ Len(products) = 2
    /\ all_results[products[2].name].purchases # <<>>
    /\ LET res == all_results[products[1].name]
           ps  == res.purchases
       IN  /\ {ps[i].Distributor : i \in 1..Len(ps)} = {"D1", "D2"}
           /\ \E i \in 1..Len(ps) :
                 /\ \A j \in 1..Len(ps) :
                       ps[j].Day = ps[i].Day => ps[j].Distributor = ps[i].Distributor
                 /\ \E p_day \in DOMAIN StartRow(res.inventory_log, ps[i].Day).Q :
                       /\ ps[i].Day - p_day < ps[i].Policy
                       /\ p_day + products[1].shelf_life - 1 # ps[i].Day
                       /\ \A j \in 1..Len(ps) :
                             ps[j].Day = ps[i].Day => ps[j].Batch_Day # p_day

-----------------------------------------------------------------------------
\* the place of a distributor in the order of the turns: after those with a
\* narrower policy window and those with the same window that come before it
\* in the configured list
TurnRank(name) ==
    LET i == CHOOSE k \in 1..Len(distributors) : distributors[k].name = name
    IN  1 + Cardinality({j \in 1..Len(distributors) :
                            \/ distributors[j].policy_days < distributors[i].policy_days
                            \/ /\ distributors[j].policy_days = distributors[i].policy_days
                               /\ j < i})

\* r comes before s in the order (Day, turn of the distributor, Batch_Day)
LedgerBefore(r, s) ==
    \/ r.Day < s.Day
    \/ /\ r.Day = s.Day
       /\ \/ TurnRank(r.Distributor) < TurnRank(s.Distributor)
          \/ /\ r.Distributor = s.Distributor
             /\ r.Batch_Day < s.Batch_Day

\* what today's records of ps took from this batch
SoldToday(ps, p_day) ==
    LET today == {i \in 1..Len(ps) : ps[i].Day = current_day /\ ps[i].Batch_Day = p_day}
    IN  SetSum([i \in today |-> ps[i].Quantity], today)

\* C20: on every day the distributors take their turns in ascending order of
\* policy window, equal windows in the order of the configured list; what a
\* distributor finds available is what the distributors served before it that
\* day have left; the purchase ledger of a product is therefore ordered by
\* (Day, turn of the distributor, Batch_Day), ascending.
C20_TurnOrder ==
    InDayLoop =>
        /\ \A k \in 1..Len(sorted_distributors) : TurnRank(sorted_distributors[k].name) = k
        /\ \A i \in 1..(Len(purchases) - 1) : LedgerBefore(purchases[i], purchases[i + 1])
        /\ (pc \in {"share", "final"} /\ turn.shares = EmptyFn)
              => /\ \A p_day \in DOMAIN turn.avail :
                       turn.avail[p_day]
                          = StartRow(inventory_log, current_day).Q[p_day]
                            - SoldToday(purchases, p_day)
                 /\ total_available = TurnAvailable

\* the second of two distributors with equal windows begins its turn on stock
\* that the first, which comes before it in the list, has drawn from two batches
C20_Witness ==
    /\ pc \in {"share", "final"}
    /\ turn.shares = EmptyFn
    /\ Len(distributors) = 2
    /\ distributors[1].policy_days = distributors[2].policy_days
    /\ dist.name = distributors[2].name
    /\ \E p_day, q_day \in DOMAIN turn.avail :
          /\ p_day < q_day
          /\ SoldToday(purchases, p_day) > 0
          /\ SoldToday(purchases, q_day) > 0

-----------------------------------------------------------------------------
InTurn == pc \in {"share", "final", "cleanup"}

\* C21: within a distributor's turn every per-batch allocation is between 0
\* and the quantity the batch held when it was allocated, the running sum of
\* the allocations never exceeds total_purchase, and remaining_purchase, which
\* is total_purchase less that sum, never goes negative.
C21_AllocationBounds ==
    InTurn =>
        /\ \A p_day \in DOMAIN turn.shares :
              0 <= turn.shares[p_day] /\ turn.shares[p_day] <= turn.avail[p_day]
        /\ TurnShares <= total_purchase
        /\ remaining_purchase >= 0
        /\ pc = "share" => remaining_purchase = total_purchase - TurnShares

\* a turn over three batches or more in which the rounded shares used up the
\* request before the last batch, one share having been cut to what remained
C21_Witness ==
    /\ pc = "final"
    /\ Len(sorted_batches) >= 3
    /\ remaining_purchase = 0
    /\ total_purchase > 0
    /\ \E p_day \in DOMAIN turn.shares :
          turn.shares[p_day] < RoundHalfEven(turn.avail[p_day] * total_purchase,
                                             total_available)

-----------------------------------------------------------------------------
ExpiryDay(p, p_day) == p_day + p.shelf_life - 1

\* the expiry step of the day is over
PastExpiry == pc \in {"dist", "share", "final", "cleanup", "logend"}

C24_AvailableOnExpiryDay ==
    (pc = "dist" /\ di = 1) =>
        \A p_day \in DOMAIN StartRow(inventory_log, current_day).Q :
            ExpiryDay(prod, p_day) = current_day
                => p_day \in DOMAIN batches /\ p_day \notin DOMAIN waste

-----------------------------------------------------------------------------
\* the batch days some snapshot row of the product has listed so far
SeenInLedger == UNION {DOMAIN inventory_log[i].Q : i \in 1..Len(inventory_log)}

\* a batch with waste recorded is out of the ledger, was not sold out, and its
\* expiry day has come
C25_Recorded ==
    (InDayLoop \/ pc = "compile") =>
        \A p_day \in DOMAIN waste :
            /\ p_day \notin DOMAIN batches
            /\ ExpiryDay(prod, p_day) <= current_day
            /\ BoughtFrom(purchases, p_day) < prod.production_plan[p_day]

\* while a product is simulated: waste is written by the expiry step alone, on
\* the batch's expiry day, with what the batch then holds, and is not written
\* again; a batch enters the ledger only on its production day, never having
\* been there before
C25_Step ==
    InDayLoop =>
        /\ \A p_day \in DOMAIN waste : p_day \in DOMAIN waste' /\ waste'[p_day] = waste[p_day]
        /\ \A p_day \in DOMAIN waste' \ DOMAIN waste :
              /\ pc = "expire"
              /\ ExpiryDay(prod, p_day) = current_day
              /\ p_day \in DOMAIN batches
              /\ waste'[p_day] = batches[p_day].current
        /\ \A p_day \in DOMAIN batches' \ DOMAIN batches :
              /\ pc = "day"
              /\ p_day = current_day
              /\ p_day \notin SeenInLedger

\* C25: for every batch, waste is written at most once, on its expiry day,
\* and is then the whole of what the batch has left; a batch sold out before
\* its expiry records no waste; a batch key removed from the ledger, by expiry
\* or by depletion, is never in the ledger again during the run.
C25_WasteOnce == [](C25_Recorded) /\ [][C25_Step]_vars

\* the end of a product's days, with one batch wasted in part, one sold out
\* before its expiry day and one still in the ledger
C25_Witness ==
    /\ pc = "compile"
    /\ \E p_day \in DOMAIN waste :
          0 < BoughtFrom(purchases, p_day)
    /\ \E p_day \in DOMAIN prod.production_plan :
          /\ prod.production_plan[p_day] > 0
          /\ BoughtFrom(purchases, p_day) = prod.production_plan[p_day]
          /\ ExpiryDay(prod, p_day) <= total_days
          /\ p_day \notin DOMAIN waste
    /\ batches # EmptyFn

-----------------------------------------------------------------------------
\* the quantity of all the records of ps
QuantityBought(ps) == SetSum([i \in 1..Len(ps) |-> ps[i].Quantity], 1..Len(ps))

\* C26: for every product of a run, the total sales reported for it, which is
\* sum(Initial) - sum(Waste) over its waste table, equals the sum of Quantity
\* over its purchase records.
C26_TotalSales ==
    pc = "done" =>
        \A n \in DOMAIN all_results :
            TotalSales(all_results[n].waste, total_days)
                = QuantityBought(all_results[n].purchases)

-----------------------------------------------------------------------------
\* the Start row of each day after the first is the End row of the day before,
\* with the batch of the day added when the plan has one
Continuous(p, log) ==
    \A day \in 1..((Len(log) - 1) \div 2) :
        StartRow(log, day + 1).Q
            = IF Produces(p.production_plan, day + 1)
              THEN ((day + 1) :> p.production_plan[day + 1]) @@ EndRow(log, day).Q
              ELSE EndRow(log, day).Q

-----------------------------------------------------------------------------
\* C28: every decision variable has a strictly positive objective coefficient
\* and the only constraints are non-negativity and the zero of closure days,
\* so the recommendation returned by optimize_production is 0 for every day,
\* whatever the horizon, the distributors and the shelf life.
C28_AlwaysZero ==
    /\ opt.pc = "built" => \A day \in opt.days : opt.coef[day] > 0
    /\ Returned => \A day \in 1..opt.sim_days : opt.recommendation[day] = 0

\* a recommendation from a program the solver solved, for a horizon of a week
\* and a distributor that buys all it finds
C28_Witness ==
    /\ Returned
    /\ opt.status = "Optimal"
    /\ opt.sim_days = MaxDays
    /\ \E i \in 1..Len(distributors) : distributors[i].proportion = 1000

-----------------------------------------------------------------------------
\* the purchase records the call in progress, or just ended, has produced
CallRecords ==
    (IF InDayLoop \/ pc = "compile" THEN SeqRange(purchases) ELSE {})
    \cup UNION {SeqRange(all_results[n].purchases) : n \in DOMAIN all_results}

CostOf(records) == SetSum([r \in records |-> r.Transport_Cost], records)

\* C29: run_simulation resets all_results and total_transport_cost when it
\* starts: in a second call on the same instance total_transport_cost is the
\* cost of that call's records alone, not a sum over the calls, and
\* all_results holds the tables that call has compiled and no other; at its
\* end the total is that of the last call.
C29_LatestRunOnly ==
    (InSecondRun /\ rerun = "same") =>
        /\ total_transport_cost = CostOf(CallRecords)
        /\ DOMAIN all_results = {products[i].name : i \in 1..(pi - 1)}
        /\ pc = "done" =>
              total_transport_cost
                  = CostOf(UNION {SeqRange(prev_results[n].purchases) :
                                     n \in DOMAIN prev_results})

\* the end of a second call on an instance whose first call sold both products
C29_Witness ==
    /\ SecondRunDone
    /\ rerun = "same"
    /\ Len(products) = 2
    /\ \A n \in DOMAIN prev_results : prev_results[n].purchases # <<>>
    /\ total_transport_cost > 0

-----------------------------------------------------------------------------
\* the waste the call has recorded: the product in hand and the tables compiled
WasteRecorded ==
    (IF InDayLoop \/ pc = "compile"
        THEN SetSum(waste, DOMAIN waste) ELSE 0)
    + SetSum([n \in DOMAIN all_results |->
                 SetSum([d \in 1..Len(all_results[n].waste) |->
                            all_results[n].waste[d].Waste],
                        1..Len(all_results[n].waste))],
             DOMAIN all_results)

\* C30: total_waste_cost is 0 in every reachable state of an instance, before,
\* during and after run_simulation, whatever waste the run records.
C30_WasteCostZero == total_waste_cost = 0

\* a run has ended with waste recorded for both of its products
C30_Witness ==
    /\ pc = "done"
    /\ Len(products) = 2
    /\ \A n \in DOMAIN all_results :
          \E d \in 1..Len(all_results[n].waste) : all_results[n].waste[d].Waste > 0
    /\ WasteRecorded > 0
====
